---- MODULE Spec2Model ----
(***************************************************************************)
(* Model of collect_weather.py: the DeltaTracker class, the registry of    *)
(* trackers used by the stateful conversions, apply_conversion and         *)
(* populate_wunderground_request_data.                                     *)
(*                                                                         *)
(* Time is counted in whole minutes.  A Python value is a record           *)
(* [t, n, d, s]: a number n/d (t = "num") or the string s (t = "str"), so  *)
(* that the float results of the unit conversions stay exact.              *)
(***************************************************************************)
EXTENDS Integers, Sequences, FiniteSets, TLC

VARIABLES
    dt,                 \* a DeltaTracker used on its own
    dt_calls,           \* the add_value calls made on dt, in order
    trackers,           \* _stateful_delta_trackers: field name -> DeltaTracker
    DEFAULT_WU_DATA,    \* the module-level dict populate_... fills and returns
    translations,       \* config['wunderground']['translations']
    clock,              \* what datetime.now() returns, in minutes
    json_data,          \* the reading translated last
    readings,           \* number of readings translated so far
    hist,               \* per field, the add_value calls made by conversions
    first_kind,         \* per field, the first stateful kind applied to it
    conv_log,           \* the apply_conversion calls of the last reading
    before,             \* registry and dict as they were before that reading
    pc,                 \* where main() is
    config,             \* what the configuration file yields
    disk,               \* the content of PICKLE_FILE
    disk_at_start,      \* its content when the process started
    disk_at_load,       \* its content when load_delta_trackers read it
    decoder,            \* the rtl_433 process
    events,             \* what main did (load, saves, terminate, exit), in order
    signal_received,    \* _signal_received, set by signal_handler
    exit_status,        \* the status the process exited with
    signals,            \* number of SIGINT/SIGTERM delivered so far
    save_failed,        \* whether a save of this run failed
    lines,              \* number of lines read from the decoder
    uploads,            \* upload_to_wunderground calls: how many, and the last
    errors              \* the kinds of non-fatal errors the loop has met

tracker_vars == <<dt, dt_calls>>
translator_vars == <<trackers, DEFAULT_WU_DATA, translations, clock, json_data,
                     readings, hist, first_kind, conv_log, before>>
main_vars == <<pc, config, disk, disk_at_start, disk_at_load, decoder, events,
               signal_received, exit_status, signals, save_failed, lines,
               uploads, errors>>
vars == <<dt, dt_calls, trackers, DEFAULT_WU_DATA, translations, clock,
          json_data, readings, hist, first_kind, conv_log, before,
          pc, config, disk, disk_at_start, disk_at_load, decoder, events,
          signal_received, exit_status, signals, save_failed, lines, uploads,
          errors>>

(* ------------------------------ bounds --------------------------------- *)
MaxPeriod == 2
MaxTime == 3
MaxValue == 2
MaxCalls == 3
MaxReadings == 3

(* ------------------------------ values --------------------------------- *)
Num(x) == [t |-> "num", n |-> x, d |-> 1, s |-> ""]
Frac(x, y) == [t |-> "num", n |-> x, d |-> y, s |-> ""]
Str(x) == [t |-> "str", n |-> 0, d |-> 1, s |-> x]
IsNum(v) == v.t = "num"

\* a - b on numbers
Sub(a, b) == Frac(a.n * b.d - b.n * a.d, a.d * b.d)

(* --------------------------- DeltaTracker ------------------------------ *)
DeltaTracker(field_name, period_in_minutes) ==
    [field_name |-> field_name, values |-> <<>>,
     period_in_minutes |-> period_in_minutes]

\* mutant: evicts the head also when its timestamp equals the cutoff
RECURSIVE EvictAtCutoff(_, _)
EvictAtCutoff(values, cutoff_time) ==
    IF Len(values) > 0 /\ values[1][1] <= cutoff_time
    THEN EvictAtCutoff(Tail(values), cutoff_time)
    ELSE values

\* mutant: every entry older than the cutoff is dropped, wherever it is
EvictStale(values, cutoff_time) ==
    SelectSeq(values, LAMBDA e : ~(e[1] < cutoff_time))

\* while len(self.values) and self.values[0][0] < cutoff_time: popleft()
RECURSIVE Evict(_, _)
Evict(values, cutoff_time) ==
    IF Len(values) > 0 /\ values[1][1] < cutoff_time
    THEN Evict(Tail(values), cutoff_time)
    ELSE values

\* mutant: the delta is returned without the clamp
Unclamped(delta) == delta

\* max(0, delta): 0 unless delta > 0
Max0(delta) == IF delta.n > 0 THEN delta ELSE Num(0)

\* mutant: only an empty deque counts as too short
TooFewEmpty(values) == Len(values) < 1

\* if len(self.values) < 2: return 0
TooFew(values) == Len(values) < 2

\* The whole of add_value: the tracker after the call, whether the call
\* raised (the subtraction of a non-number), and the value returned.
add_value(self, value, timestamp) ==
    LET appended == Append(self.values, <<timestamp, value>>)
        cutoff_time == timestamp - self.period_in_minutes
        kept == Evict(appended, cutoff_time)
        after == [self EXCEPT !.values = kept]
    IN  IF TooFew(kept)
        THEN [self |-> after, raised |-> FALSE, ret |-> Num(0)]
        ELSE LET first_value == kept[1][2]
                 last_value == kept[Len(kept)][2]
             IN  IF IsNum(first_value) /\ IsNum(last_value)
                 THEN [self |-> after, raised |-> FALSE,
                       ret |-> Max0(Sub(last_value, first_value))]
                 ELSE [self |-> after, raised |-> TRUE, ret |-> Num(0)]


(* ------------------------- apply_conversion ---------------------------- *)
HourMinutes == 60
DayMinutes == 60 * 24

\* x / 25.4
mm_to_in(x) == Frac(x.n * 10, x.d * 254)

\* The stateless lambdas of the conversions table.  Arithmetic on a string
\* raises TypeError.
Stateless == {"c_to_f", "ms_to_mph", "mm_to_in", "hpa_to_inhg"}
stateless_conversion(conversion_type, x) ==
    IF ~IsNum(x) THEN [exc |-> "TypeError", ret |-> x]
    ELSE [exc |-> "",
          ret |-> CASE conversion_type = "c_to_f" -> Frac(x.n * 9 + 32 * 5 * x.d, 5 * x.d)
                    [] conversion_type = "ms_to_mph" -> Frac(x.n * 2237, x.d * 1000)
                    [] conversion_type = "mm_to_in" -> mm_to_in(x)
                    [] conversion_type = "hpa_to_inhg" -> Frac(x.n * 2953, x.d * 100000)]

\* mutant: every field shares the tracker registered under one key
delta_one_shared_tracker(reg, x, field_name, now, period) ==
    LET created == IF "rain_mm" \notin DOMAIN reg
                   THEN ("rain_mm" :> DeltaTracker("rain_mm", period)) @@ reg
                   ELSE reg
        r == add_value(created["rain_mm"], x, now)
    IN  [trackers |-> [created EXCEPT !["rain_mm"] = r.self],
         exc |-> IF r.raised THEN "TypeError" ELSE "",
         ret |-> mm_to_in(r.ret)]

\* the body shared by the two closures, for a window of `period` minutes
delta_mm_to_in(reg, x, field_name, now, period) ==
    LET created == IF field_name \notin DOMAIN reg
                   THEN (field_name :> DeltaTracker(field_name, period)) @@ reg
                   ELSE reg
        r == add_value(created[field_name], x, now)
    IN  [trackers |-> [created EXCEPT ![field_name] = r.self],
         exc |-> IF r.raised THEN "TypeError" ELSE "",
         ret |-> mm_to_in(r.ret)]

\* mutant: an existing tracker of another window is replaced by a new one
delta_hour_recreating(reg, x, field_name, now) ==
    IF field_name \in DOMAIN reg /\ reg[field_name].period_in_minutes # HourMinutes
    THEN delta_mm_to_in([f \in DOMAIN reg \ {field_name} |-> reg[f]],
                        x, field_name, now, HourMinutes)
    ELSE delta_mm_to_in(reg, x, field_name, now, HourMinutes)

delta_hour_mm_to_in(reg, x, field_name, now) ==
    delta_mm_to_in(reg, x, field_name, now, HourMinutes)

\* mutant: the daily closure creates its tracker with the hourly window
delta_day_hourly_window(reg, x, field_name, now) ==
    delta_mm_to_in(reg, x, field_name, now, HourMinutes)

delta_day_mm_to_in(reg, x, field_name, now) ==
    delta_mm_to_in(reg, x, field_name, now, DayMinutes)

Stateful == {"delta_hour_mm_to_in", "delta_day_mm_to_in"}
WindowOf(conversion_type) ==
    IF conversion_type = "delta_hour_mm_to_in" THEN HourMinutes ELSE DayMinutes

\* conversions[conversion_type](value); a kind that is not a key of the
\* table raises KeyError.  (local_to_utc is not modelled: no rule below
\* uses it.)
conversions(reg, conversion_type, value, field_name, now) ==
    CASE conversion_type \in Stateless ->
            [trackers |-> reg] @@ stateless_conversion(conversion_type, value)
      [] conversion_type = "delta_hour_mm_to_in" ->
            delta_hour_mm_to_in(reg, value, field_name, now)
      [] conversion_type = "delta_day_mm_to_in" ->
            delta_day_mm_to_in(reg, value, field_name, now)
      [] OTHER -> [trackers |-> reg, exc |-> "KeyError", ret |-> value]

\* mutant: only the arithmetic error is caught
CaughtTypeErrorOnly(exc) == exc = "TypeError"

\* except Exception: catches every exception a conversion raises
Caught(exc) == exc \in {"KeyError", "TypeError"}

\* apply_conversion(value, conversion_type, field_name), reading the clock
\* as `now`: the registry after the call, the value returned, the exception
\* the conversion raised ("" for none) and whether it left the function.
apply_conversion(reg, value, conversion_type, field_name, now) ==
    IF conversion_type = ""
    THEN [trackers |-> reg, ret |-> value, exc |-> "", raised |-> FALSE]
    ELSE LET r == conversions(reg, conversion_type, value, field_name, now)
         IN  IF r.exc = ""
             THEN [trackers |-> r.trackers, ret |-> r.ret,
                   exc |-> "", raised |-> FALSE]
             ELSE IF Caught(r.exc)
             THEN [trackers |-> r.trackers, ret |-> value,
                   exc |-> r.exc, raised |-> FALSE]
             ELSE [trackers |-> r.trackers, ret |-> value,
                   exc |-> r.exc, raised |-> TRUE]

(* ---------------- populate_wunderground_request_data ------------------- *)
NoConversion == "<no conversion key>"
Rule(rtl_field, field, conversion) ==
    [rtl_field |-> rtl_field, field |-> field, conversion |-> conversion]

station_id == Str("KSTATION1")
station_key == Str("secret")

\* The for loop over the rules, from the state st on.  st carries the
\* registry, the record being filled, and the bookkeeping of the calls.
RECURSIVE translate_rules(_, _, _, _)
translate_rules(st, reading, rules, now) ==
    IF rules = <<>> \/ st.raised THEN st
    ELSE LET trans == Head(rules)
             rtl_field == trans.rtl_field
         IN  IF rtl_field \notin DOMAIN reading
             THEN translate_rules(st, reading, Tail(rules), now)
             ELSE IF trans.conversion = NoConversion
             THEN translate_rules(
                      [st EXCEPT !.wu_data = (trans.field :> reading[rtl_field]) @@ @],
                      reading, Tail(rules), now)
             ELSE LET value == reading[rtl_field]
                      r == apply_conversion(st.trackers, value, trans.conversion,
                                            rtl_field, now)
                      observed == trans.conversion \in Stateful
                      h == IF observed
                           THEN [st.hist EXCEPT ![rtl_field] = Append(@, <<now, value>>)]
                           ELSE st.hist
                      entry == [field_name |-> rtl_field,
                                conversion_type |-> trans.conversion,
                                value |-> value, ret |-> r.ret,
                                exc |-> r.exc, raised |-> r.raised,
                                nobs |-> Len(h[rtl_field])]
                  IN  translate_rules(
                          [trackers |-> r.trackers,
                           wu_data |-> IF r.raised THEN st.wu_data
                                       ELSE (trans.field :> r.ret) @@ st.wu_data,
                           hist |-> h,
                           first_kind |-> IF observed /\ st.first_kind[rtl_field] = ""
                                          THEN [st.first_kind EXCEPT ![rtl_field] = trans.conversion]
                                          ELSE st.first_kind,
                           log |-> Append(st.log, entry),
                           raised |-> r.raised],
                          reading, Tail(rules), now)

\* wu_data = DEFAULT_WU_DATA binds the module-level dict itself, so the
\* record starts from whatever that dict holds.
populate_wunderground_request_data(reg, wu, h, fk, reading, rules, now) ==
    translate_rules(
        [trackers |-> reg,
         wu_data |-> ("PASSWORD" :> station_key) @@ ("ID" :> station_id) @@ wu,
         hist |-> h, first_kind |-> fk, log |-> <<>>, raised |-> FALSE],
        reading, rules, now)

(* --------------------------- the translator ---------------------------- *)
Fields == {"rain_mm", "temperature_C"}
FieldValues(f) ==
    IF f = "rain_mm" THEN {Num(x) : x \in 1..MaxValue} \cup {Str("n/a")}
    ELSE {Num(20)}
Readings ==
    UNION {{r \in [S -> UNION {FieldValues(f) : f \in Fields}] :
               \A f \in S : r[f] \in FieldValues(f)} : S \in SUBSET Fields}
Times == {0, HourMinutes, HourMinutes + 1, DayMinutes + 1}

RainHour == Rule("rain_mm", "rainin", "delta_hour_mm_to_in")
RainDay == Rule("rain_mm", "dailyrainin", "delta_day_mm_to_in")
RainInches == Rule("rain_mm", "rainin", "mm_to_in")
TempF == Rule("temperature_C", "tempf", "c_to_f")
TempHour == Rule("temperature_C", "tempchange", "delta_hour_mm_to_in")
TempUnknown == Rule("temperature_C", "tempf", "c_to_k")
TempPlain == Rule("temperature_C", "tempc", NoConversion)
Tables == {<<RainHour, RainDay>>, <<RainDay, RainHour>>, <<TempF, RainHour>>,
           <<RainDay, TempUnknown>>, <<RainInches, TempPlain>>,
           <<RainHour, RainInches>>, <<TempHour, RainHour>>}

InitTranslatorIdle ==
    /\ trackers = <<>>
    /\ DEFAULT_WU_DATA = ("dateutc" :> Str("now")) @@ ("action" :> Str("updateraw"))
    /\ translations = <<>>
    /\ clock = 0
    /\ json_data = <<>>
    /\ readings = 0
    /\ hist = [f \in Fields |-> <<>>]
    /\ first_kind = [f \in Fields |-> ""]
    /\ conv_log = <<>>
    /\ before = [trackers |-> <<>>, wu_data |-> <<>>]

\* main() is not running
InitMainIdle ==
    /\ pc = "idle"
    /\ config = "ok"
    /\ disk = [kind |-> "absent", items |-> {}]
    /\ disk_at_start = [kind |-> "absent", items |-> {}]
    /\ disk_at_load = [kind |-> "absent", items |-> {}]
    /\ decoder = "none"
    /\ events = <<>>
    /\ signal_received = FALSE
    /\ exit_status = "running"
    /\ signals = 0
    /\ save_failed = FALSE
    /\ lines = 0
    /\ uploads = [n |-> 0, record |-> <<>>, outcome |-> ""]
    /\ errors = {}

(* ----------------- a DeltaTracker driven through add_value ------------- *)
Periods == 1..MaxPeriod
Timestamps == 0..MaxTime
Observations == {Num(x) : x \in 0..MaxValue} \cup {Str("n/a")}

InitTracker ==
    /\ \E p \in Periods : dt = DeltaTracker("rain_mm", p)
    /\ dt_calls = <<>>
    /\ InitTranslatorIdle
    /\ InitMainIdle

\* one call dt.add_value(value, timestamp) with an explicit timestamp
AddValue(value, timestamp) ==
    /\ Len(dt_calls) < MaxCalls
    /\ LET r == add_value(dt, value, timestamp)
       IN  /\ dt' = r.self
           /\ dt_calls' = Append(dt_calls,
                 [timestamp |-> timestamp, value |-> value,
                  before |-> dt.values, raised |-> r.raised, ret |-> r.ret])
    /\ UNCHANGED <<translator_vars, main_vars>>

NextTracker == \E value \in Observations, timestamp \in Timestamps :
                  AddValue(value, timestamp)

SpecTracker == InitTracker /\ [][NextTracker]_vars


(* ------------------- the translator fed with readings ------------------ *)
Init ==
    /\ dt = DeltaTracker("rain_mm", HourMinutes)
    /\ dt_calls = <<>>
    /\ trackers = <<>>
    /\ DEFAULT_WU_DATA = ("dateutc" :> Str("now")) @@ ("action" :> Str("updateraw"))
    /\ translations \in Tables
    /\ clock = 0
    /\ json_data = <<>>
    /\ readings = 0
    /\ hist = [f \in Fields |-> <<>>]
    /\ first_kind = [f \in Fields |-> ""]
    /\ conv_log = <<>>
    /\ before = [trackers |-> <<>>, wu_data |-> <<>>]
    /\ InitMainIdle

\* One decoded line: populate_wunderground_request_data(json_data,
\* translations, config).  The loop blocks until the decoder emits a line,
\* so any amount of time may pass between two readings; the conversions of
\* one reading each call datetime.now() and all get the same minute, now.
TranslateReading(reading, now) ==
    /\ now >= clock
    /\ LET r == populate_wunderground_request_data(
                    trackers, DEFAULT_WU_DATA, hist, first_kind,
                    reading, translations, now)
       IN  /\ trackers' = r.trackers
           /\ DEFAULT_WU_DATA' = r.wu_data
           /\ hist' = r.hist
           /\ first_kind' = r.first_kind
           /\ conv_log' = r.log
    /\ before' = [trackers |-> trackers, wu_data |-> DEFAULT_WU_DATA]
    /\ clock' = now
    /\ json_data' = reading
    /\ readings' = readings + 1
    /\ UNCHANGED <<translations, tracker_vars>>

Translate(reading, now) ==
    /\ readings < MaxReadings
    /\ TranslateReading(reading, now)
    /\ UNCHANGED main_vars

Next == \E reading \in Readings, now \in Times : Translate(reading, now)

Spec == Init /\ [][Next]_vars

(* --------------------------- persistence ------------------------------- *)
\* The file at PICKLE_FILE: absent, unreadable, not a pickle (corrupt), or
\* the pickle of a registry: one item <<key, field_name, period, entries>>
\* per tracker.
NoFile == [kind |-> "absent", items |-> {}]
Unreadable == [kind |-> "unreadable", items |-> {}]
Corrupt == [kind |-> "corrupt", items |-> {}]

\* mutant: the pickle keeps the trackers without their window
pickle_without_window(reg) ==
    [kind |-> "pickle",
     items |-> {<<f, reg[f].field_name, HourMinutes, reg[f].values>> : f \in DOMAIN reg}]

\* pickle.dump(_stateful_delta_trackers, f)
pickle_dump(reg) ==
    [kind |-> "pickle",
     items |-> {<<f, reg[f].field_name, reg[f].period_in_minutes, reg[f].values>> :
                   f \in DOMAIN reg}]

\* pickle.load(f)
pickle_load(file) ==
    [f \in {item[1] : item \in file.items} |->
        LET item == CHOOSE item \in file.items : item[1] = f
        IN  [field_name |-> item[2], values |-> item[4],
             period_in_minutes |-> item[3]]]

\* save_delta_trackers(): open(PICKLE_FILE, 'wb') may fail and leave the
\* file as it is, the write may fail after the file was truncated; both
\* errors are caught and printed.
SaveOutcomes == {"ok", "open_fails", "write_fails"}
save_delta_trackers(file, reg, outcome) ==
    CASE outcome = "ok" -> pickle_dump(reg)
      [] outcome = "open_fails" -> file
      [] outcome = "write_fails" -> Corrupt

\* mutant: no try/except around the load
load_without_try(file, reg) ==
    IF file.kind = "pickle" THEN [trackers |-> pickle_load(file), raised |-> FALSE]
    ELSE IF file.kind = "absent" THEN [trackers |-> reg, raised |-> FALSE]
    ELSE [trackers |-> reg, raised |-> TRUE]

\* load_delta_trackers(): the registry afterwards and whether it raised
load_delta_trackers(file, reg) ==
    IF file.kind = "pickle" THEN [trackers |-> pickle_load(file), raised |-> FALSE]
    ELSE IF file.kind = "absent" THEN [trackers |-> reg, raised |-> FALSE]
    ELSE [trackers |-> <<>>, raised |-> FALSE]

(* ------------------------------- main ---------------------------------- *)
MaxLines == 3
MaxSignals == 1

SavedRegistry ==
    "rain_mm" :> [field_name |-> "rain_mm", period_in_minutes |-> DayMinutes,
                  values |-> <<<<0, Num(1)>>>>]
StartFiles == {NoFile, Unreadable, Corrupt, pickle_dump(SavedRegistry)}
Configs == {"ok", "unloadable", "no_credentials"}
MainTables == {<<RainHour, RainDay>>, <<RainDay, TempUnknown>>}
MainReadings ==
    {"rain_mm" :> Num(2), ("rain_mm" :> Str("n/a")) @@ ("temperature_C" :> Num(20))}
MainTimes == {0, DayMinutes + 1}
UploadOutcomes == {"success", "rejected", "error"}

InitMain ==
    /\ dt = DeltaTracker("rain_mm", HourMinutes)
    /\ dt_calls = <<>>
    /\ trackers = <<>>
    /\ DEFAULT_WU_DATA = ("dateutc" :> Str("now")) @@ ("action" :> Str("updateraw"))
    /\ translations \in MainTables
    /\ clock = 0
    /\ json_data = <<>>
    /\ readings = 0
    /\ hist = [f \in Fields |-> <<>>]
    /\ first_kind = [f \in Fields |-> ""]
    /\ conv_log = <<>>
    /\ before = [trackers |-> <<>>, wu_data |-> <<>>]
    /\ pc = "start"
    /\ config \in Configs
    /\ disk \in StartFiles
    /\ disk_at_start = disk
    /\ disk_at_load = NoFile
    /\ decoder = "none"
    /\ events = <<>>
    /\ signal_received = FALSE
    /\ exit_status = "running"
    /\ signals = 0
    /\ save_failed = FALSE
    /\ lines = 0
    /\ uploads = [n |-> 0, record |-> <<>>, outcome |-> ""]
    /\ errors = {}

Exit(status, evs) ==
    /\ pc' = "exited"
    /\ exit_status' = status
    /\ events' = evs \o <<"exit">>

\* signal.signal(SIGINT, signal_handler); signal.signal(SIGTERM, ...)
RegisterHandlers ==
    /\ pc = "start"
    /\ pc' = "load"
    /\ UNCHANGED <<tracker_vars, translator_vars, config, disk, disk_at_start,
                   disk_at_load, decoder, events, signal_received, exit_status,
                   signals, save_failed, lines, uploads, errors>>

\* load_delta_trackers()
Load ==
    /\ pc = "load"
    /\ LET r == load_delta_trackers(disk, trackers)
       IN  /\ trackers' = r.trackers
           /\ IF r.raised
              THEN Exit("1", Append(events, "load_raised"))
              ELSE /\ pc' = "config"
                   /\ events' = Append(events, "load")
                   /\ UNCHANGED exit_status
    /\ disk_at_load' = disk
    /\ UNCHANGED <<tracker_vars, DEFAULT_WU_DATA, translations, clock, json_data,
                   readings, hist, first_kind, conv_log, before, config, disk,
                   disk_at_start, decoder, signal_received, signals,
                   save_failed, lines, uploads, errors>>

\* Lines 208-219: the configuration cannot be loaded: sys.exit(1); the
\* station id or key is missing: return; otherwise go on to start rtl_433.
LoadConfig ==
    /\ pc = "config"
    /\ CASE config = "unloadable" -> Exit("1", Append(events, "config_error"))
         [] config = "no_credentials" -> Exit("0", Append(events, "config_error"))
         [] OTHER -> pc' = "popen" /\ UNCHANGED <<exit_status, events>>
    /\ UNCHANGED <<tracker_vars, translator_vars, config, disk, disk_at_start,
                   disk_at_load, decoder, signal_received, signals, save_failed,
                   lines, uploads, errors>>

\* subprocess.Popen(rtl_cmd, ...): the decoder runs and the for loop over
\* its output starts, or Popen raises and `process` is never bound.
Popen(started) ==
    /\ pc = "popen"
    /\ IF started
       THEN pc' = "read" /\ decoder' = "running"
       ELSE pc' = "finally" /\ UNCHANGED decoder
    /\ UNCHANGED <<tracker_vars, translator_vars, config, disk, disk_at_start,
                   disk_at_load, events, signal_received, exit_status, signals,
                   save_failed, lines, uploads, errors>>

\* mutant: no try/except inside the loop, every exception ends it
loop_without_inner_try(exc) == IF exc = "" THEN "read" ELSE "finally"

\* Lines 236-246: JSONDecodeError and every other Exception raised while a
\* line is handled are caught inside the loop, which goes on.
loop_after(exc) ==
    IF exc \in {"", "JSONDecodeError", "TypeError"} THEN "read" ELSE "finally"

\* One line of the decoder that yields no reading.  A blank line is
\* skipped; a line that is not JSON raises JSONDecodeError; a JSON value
\* that is not an object makes `rtl_field in json_data` raise TypeError,
\* after the station key and id were put in the record.
OtherLines == {"blank", "malformed", "not_object"}
line_exception(kind) ==
    CASE kind = "blank" -> ""
      [] kind = "malformed" -> "JSONDecodeError"
      [] kind = "not_object" -> "TypeError"
ReadOtherLine(kind) ==
    /\ pc = "read" /\ decoder = "running" /\ lines < MaxLines
    /\ lines' = lines + 1
    /\ pc' = loop_after(line_exception(kind))
    /\ errors' = IF kind = "blank" THEN errors ELSE errors \cup {"malformed"}
    /\ DEFAULT_WU_DATA' =
           IF kind = "not_object" /\ translations # <<>>
           THEN ("PASSWORD" :> station_key) @@ ("ID" :> station_id) @@ DEFAULT_WU_DATA
           ELSE DEFAULT_WU_DATA
    /\ UNCHANGED <<tracker_vars, trackers, translations, clock, json_data,
                   readings, hist, first_kind, conv_log, before, config, disk,
                   disk_at_start, disk_at_load, decoder, events, signal_received,
                   exit_status, signals, save_failed, uploads>>

\* One line that is a JSON object: it is translated (lines 237-240).
ReadReading(reading, now) ==
    /\ pc = "read" /\ decoder = "running" /\ lines < MaxLines
    /\ TranslateReading(reading, now)
    /\ lines' = lines + 1
    /\ pc' = "upload"
    /\ errors' = IF \E i \in 1..Len(conv_log') : conv_log'[i].exc # ""
                 THEN errors \cup {"conversion"} ELSE errors
    /\ UNCHANGED <<config, disk, disk_at_start, disk_at_load, decoder, events,
                   signal_received, exit_status, signals, save_failed, uploads>>

\* upload_to_wunderground(station_id, station_key, wu_data): success, a
\* response without 'success', or an exception, which is caught.
Upload(outcome) ==
    /\ pc = "upload"
    /\ uploads' = [n |-> uploads.n + 1, record |-> DEFAULT_WU_DATA,
                   outcome |-> outcome]
    /\ errors' = IF outcome = "success" THEN errors ELSE errors \cup {"upload"}
    /\ pc' = "read"
    /\ UNCHANGED <<tracker_vars, translator_vars, config, disk, disk_at_start,
                   disk_at_load, decoder, events, signal_received, exit_status,
                   signals, save_failed, lines>>

\* the decoder closed its output: the for loop ends
EndOfOutput ==
    /\ pc = "read" /\ decoder = "exited"
    /\ pc' = "finally"
    /\ UNCHANGED <<tracker_vars, translator_vars, config, disk, disk_at_start,
                   disk_at_load, decoder, events, signal_received, exit_status,
                   signals, save_failed, lines, uploads, errors>>

\* finally: save_delta_trackers()
FinallySave(outcome) ==
    /\ pc = "finally"
    /\ disk' = save_delta_trackers(disk, trackers, outcome)
    /\ save_failed' = (save_failed \/ outcome # "ok")
    /\ events' = Append(events, "save_finally")
    /\ pc' = "terminate"
    /\ UNCHANGED <<tracker_vars, translator_vars, config, disk_at_start,
                   disk_at_load, decoder, signal_received, exit_status, signals,
                   lines, uploads, errors>>

\* process.terminate(); raises UnboundLocalError when Popen never returned
Terminate ==
    /\ pc = "terminate"
    /\ IF decoder = "none"
       THEN Exit("1", events)
       ELSE /\ pc' = "wait"
            /\ events' = Append(events, "terminate")
            /\ UNCHANGED exit_status
    /\ UNCHANGED <<tracker_vars, translator_vars, config, disk, disk_at_start,
                   disk_at_load, decoder, signal_received, signals, save_failed,
                   lines, uploads, errors>>

\* process.wait() returns once the decoder has exited; its exit code and
\* stderr are printed, main returns (or the pending SystemExit goes on)
Wait ==
    /\ pc = "wait" /\ decoder = "exited"
    /\ Exit("0", events)
    /\ UNCHANGED <<tracker_vars, translator_vars, config, disk, disk_at_start,
                   disk_at_load, decoder, signal_received, signals, save_failed,
                   lines, uploads, errors>>

\* the decoder exits, by itself or because it was asked to
DecoderExits ==
    /\ decoder = "running"
    /\ decoder' = "exited"
    /\ UNCHANGED <<tracker_vars, translator_vars, pc, config, disk, disk_at_start,
                   disk_at_load, events, signal_received, exit_status, signals,
                   save_failed, lines, uploads, errors>>

\* SIGINT or SIGTERM is delivered once the handlers are registered:
\* signal_handler saves, sets the flag and calls sys.exit(0).  SystemExit
\* raised inside the try block of main runs its finally block; raised
\* anywhere else (before the try, or inside the finally block) it ends the
\* process.
InTry == pc \in {"popen", "read", "upload"}
Signal(outcome) ==
    /\ pc \notin {"start", "exited"}
    /\ signals < MaxSignals
    /\ signals' = signals + 1
    /\ disk' = save_delta_trackers(disk, trackers, outcome)
    /\ save_failed' = (save_failed \/ outcome # "ok")
    /\ signal_received' = TRUE
    /\ IF InTry
       THEN /\ pc' = "finally"
            /\ events' = Append(events, "save_handler")
            /\ UNCHANGED exit_status
       ELSE Exit("0", Append(events, "save_handler"))
    /\ UNCHANGED <<tracker_vars, translator_vars, config, disk_at_start,
                   disk_at_load, decoder, lines, uploads, errors>>

MainStep ==
    \/ RegisterHandlers \/ Load \/ LoadConfig
    \/ \E started \in BOOLEAN : Popen(started)
    \/ \E outcome \in UploadOutcomes : Upload(outcome)
    \/ EndOfOutput
    \/ \E outcome \in SaveOutcomes : FinallySave(outcome)
    \/ Terminate \/ Wait

NextMain ==
    \/ MainStep
    \/ \E kind \in OtherLines : ReadOtherLine(kind)
    \/ \E reading \in MainReadings, now \in MainTimes : ReadReading(reading, now)
    \/ DecoderExits
    \/ \E outcome \in SaveOutcomes : Signal(outcome)

SpecMain == InitMain /\ [][NextMain]_vars

\* The interpreter keeps running main: a step of main that is possible is
\* taken.  Nothing makes the decoder emit a line or exit, or a signal arrive.
FairSpecMain == SpecMain /\ WF_vars(MainStep)


(* -------------------- properties of DeltaTracker ----------------------- *)
LastCall == dt_calls[Len(dt_calls)]
AllNumeric == \A i \in 1..Len(dt_calls) : IsNum(dt_calls[i].value)
StrictlyIncreasing ==
    \A i \in 1..(Len(dt_calls) - 1) :
        dt_calls[i].timestamp < dt_calls[i + 1].timestamp
WithinWindow ==
    \A i, j \in 1..Len(dt_calls) :
        dt_calls[j].timestamp - dt_calls[i].timestamp <= dt.period_in_minutes
Max(a, b) == IF a >= b THEN a ELSE b

\* C1: after N >= 2 calls with strictly increasing timestamps that all lie
\* within the window of each other, on a tracker that started empty, the
\* N-th call returns max(0, last inserted value - first inserted value).
C1_DeltaFirstToLast ==
    (Len(dt_calls) >= 2 /\ AllNumeric /\ StrictlyIncreasing /\ WithinWindow)
        => /\ ~LastCall.raised
           /\ LastCall.ret = Num(Max(0, LastCall.value.n - dt_calls[1].value.n))

C1_Witness ==
    /\ Len(dt_calls) >= 3 /\ AllNumeric /\ StrictlyIncreasing /\ WithinWindow
    /\ LastCall.timestamp - dt_calls[1].timestamp = dt.period_in_minutes
    /\ LastCall.ret.n > 0

\* C2: after every add_value call, whatever was observed before, no retained
\* entry is older than (timestamp of the call - window).
C2_NoEntryOlderThanCutoff ==
    dt_calls # <<>> =>
        \A i \in 1..Len(dt.values) :
            dt.values[i][1] >= LastCall.timestamp - dt.period_in_minutes

\* C3: the retained entries are ordered by timestamp, non-decreasing from
\* head to tail, after any sequence of add_value calls.
C3_OrderedByTimestamp ==
    \A i, j \in 1..Len(dt.values) :
        i < j => dt.values[i][1] <= dt.values[j][1]

\* C4: for numeric observations the returned delta is never negative, and
\* it is exactly 0 when the inserted value is below the earliest retained one.
C4_DeltaNeverNegative ==
    (dt_calls # <<>> /\ AllNumeric)
        => /\ ~LastCall.raised
           /\ LastCall.ret.n >= 0
           /\ (LastCall.value.n < dt.values[1][2].n => LastCall.ret = Num(0))

C4_Witness ==
    /\ dt_calls # <<>> /\ AllNumeric
    /\ Len(dt.values) >= 2
    /\ LastCall.value.n < dt.values[1][2].n
    /\ LastCall.ret = Num(0)

EvictsAllEarlier(call) ==
    /\ call.before # <<>>
    /\ \A i \in 1..Len(call.before) :
           call.before[i][1] < call.timestamp - dt.period_in_minutes

\* C5: add_value returns 0 when fewer than two entries remain after the
\* eviction: on the first observation of an empty tracker, and on an
\* observation that evicts every earlier entry.
C5_ZeroBelowTwoEntries ==
    dt_calls # <<>> =>
        ((Len(dt.values) < 2 \/ LastCall.before = <<>> \/ EvictsAllEarlier(LastCall))
            => ~LastCall.raised /\ LastCall.ret = Num(0))

C5_Witness ==
    /\ dt_calls # <<>>
    /\ EvictsAllEarlier(LastCall)
    /\ Len(dt.values) = 1
    /\ IsNum(LastCall.value) /\ LastCall.value.n > 0
    /\ LastCall.before[Len(LastCall.before)][2] # LastCall.value
    /\ LastCall.ret = Num(0)

\* the entries of values from position k on
From(values, k) == SubSeq(values, k, Len(values))

\* C17: eviction removes entries from the head only, and only while the
\* head is strictly older than cutoff = timestamp - window: what is left is
\* the old entries plus the new one, without a prefix whose entries are all
\* older than the cutoff, and it starts with an entry that is not (an entry
\* stamped exactly at the cutoff stays and is the oldest value); the entry
\* just inserted is never removed, so it is the last entry.
C17_EvictionFromHeadOnly ==
    dt_calls # <<>> =>
        LET cutoff == LastCall.timestamp - dt.period_in_minutes
            appended == Append(LastCall.before, <<LastCall.timestamp, LastCall.value>>)
        IN  /\ dt.values # <<>>
            /\ dt.values[Len(dt.values)] = <<LastCall.timestamp, LastCall.value>>
            /\ dt.values[1][1] >= cutoff
            /\ \E k \in 1..Len(appended) :
                   /\ dt.values = From(appended, k)
                   /\ \A i \in 1..(k - 1) : appended[i][1] < cutoff

C17_Witness ==
    /\ Len(dt_calls) >= 2 /\ AllNumeric
    /\ Len(dt.values) >= 2 /\ Len(dt.values) < Len(LastCall.before) + 1
    /\ dt.values[1][1] = LastCall.timestamp - dt.period_in_minutes
    /\ LastCall.ret = Num(LastCall.value.n - dt.values[1][2].n)
    /\ LastCall.ret.n > 0

(* ------------------- properties of the translator ---------------------- *)
\* the result of the last add_value when obs are fed to self in order
RECURSIVE replay(_, _, _)
replay(self, obs, res) ==
    IF obs = <<>> THEN res
    ELSE LET r == add_value(self, Head(obs)[2], Head(obs)[1])
         IN  replay(r.self, Tail(obs), r)
BoundaryDelta(field_name, obs, period) ==
    replay(DeltaTracker(field_name, period), obs,
           [self |-> DeltaTracker(field_name, period), raised |-> FALSE, ret |-> Num(0)])
ObservedUpTo(e) == SubSeq(hist[e.field_name], 1, e.nobs)
StatefulCalls == {i \in 1..Len(conv_log) : conv_log[i].conversion_type \in Stateful}

\* C6 (as claimed): a stateful conversion that succeeds returns the boundary
\* delta of all the field's observations over the window of its own kind,
\* 60 minutes for the hourly kind and 1440 for the daily one, over 25.4.
C6_DeltaOverOwnWindow ==
    \A i \in StatefulCalls :
        LET e == conv_log[i]
            b == BoundaryDelta(e.field_name, ObservedUpTo(e), WindowOf(e.conversion_type))
        IN  (e.exc = "" /\ ~b.raised) => e.ret = mm_to_in(b.ret)

\* C6 (amended): a stateful conversion returns the boundary delta of the
\* field's observations over the window of the kind that was applied to the
\* field first, over 25.4: its own window when the field's tracker was
\* created by the same kind.
C6_DeltaOverFirstWindow ==
    \A i \in StatefulCalls :
        LET e == conv_log[i]
            b == BoundaryDelta(e.field_name, ObservedUpTo(e),
                               WindowOf(first_kind[e.field_name]))
        IN  /\ first_kind[e.field_name] \in Stateful
            /\ (e.exc = "") = ~b.raised
            /\ e.exc = "" => e.ret = mm_to_in(b.ret)

C6_Witness ==
    \E i \in StatefulCalls :
        LET e == conv_log[i]
        IN  /\ e.conversion_type = "delta_day_mm_to_in"
            /\ first_kind[e.field_name] = e.conversion_type
            /\ e.exc = "" /\ e.ret.n > 0
            /\ trackers[e.field_name].values[1][1] < clock - HourMinutes

RECURSIVE observe_all(_, _)
observe_all(self, obs) ==
    IF obs = <<>> THEN self
    ELSE observe_all(add_value(self, Head(obs)[2], Head(obs)[1]).self, Tail(obs))
NewObservations(f) == SubSeq(hist'[f], Len(hist[f]) + 1, Len(hist'[f]))
FirstKindInLog(f) ==
    LET i == CHOOSE i \in 1..Len(conv_log') :
                 /\ conv_log'[i].field_name = f
                 /\ conv_log'[i].conversion_type \in Stateful
                 /\ \A j \in 1..(i - 1) :
                        ~(conv_log'[j].field_name = f
                          /\ conv_log'[j].conversion_type \in Stateful)
    IN  conv_log'[i].conversion_type

\* C7: one tracker per field name.  A tracker, once registered, stays
\* registered with its window, and its entries after a reading are its old
\* entries with the reading's observations added, whatever window the
\* conversions ask for; a field without a tracker gets one with the window
\* of the stateful conversion applied to it first.
C7_Step ==
    /\ \A f \in DOMAIN trackers :
           /\ f \in DOMAIN trackers'
           /\ trackers'[f].period_in_minutes = trackers[f].period_in_minutes
           /\ trackers'[f] = observe_all(trackers[f], NewObservations(f))
    /\ \A f \in DOMAIN trackers' \ DOMAIN trackers :
           /\ NewObservations(f) # <<>>
           /\ trackers'[f] =
                  observe_all(DeltaTracker(f, WindowOf(FirstKindInLog(f))),
                              NewObservations(f))
    /\ \A f \in DOMAIN trackers' : trackers'[f].field_name = f
C7_OneTrackerPerField == [][C7_Step]_vars

C7_Witness ==
    \E i \in StatefulCalls :
        LET e == conv_log[i]
        IN  /\ e.field_name \in DOMAIN before.trackers
            /\ WindowOf(e.conversion_type) # trackers[e.field_name].period_in_minutes
            /\ Len(trackers[e.field_name].values) >= 3
            /\ trackers[e.field_name].values[1] = before.trackers[e.field_name].values[1]

Rules == {translations[i] : i \in 1..Len(translations)}

\* C8: the record made for a reading holds no destination field of a rule
\* whose source field the reading lacks (unless another rule, whose source
\* field is present, writes that destination).
C8_AbsentSourceOmitted ==
    readings > 0 =>
        \A tr \in Rules :
            (/\ tr.rtl_field \notin DOMAIN json_data
             /\ \A other \in Rules :
                    other.field = tr.field => other.rtl_field \notin DOMAIN json_data)
                => tr.field \notin DOMAIN DEFAULT_WU_DATA

DistinctDestinations ==
    \A i, j \in 1..Len(translations) :
        i # j => translations[i].field # translations[j].field
Orders ==
    {q \in [1..Len(translations) -> Rules] :
        \A tr \in Rules : \E i \in 1..Len(translations) : q[i] = tr}
SameInEveryOrder ==
    \A q \in Orders :
        LET r == populate_wunderground_request_data(
                     before.trackers, before.wu_data, hist, first_kind,
                     json_data, q, clock)
        IN  r.wu_data = DEFAULT_WU_DATA /\ r.trackers = trackers

\* C9 (as claimed): with pairwise distinct destination fields, the record
\* and the registry after a reading are the same for every order of the
\* rules, also when several stateful rules read the same source field.
C9_OrderIndependent ==
    (readings > 0 /\ DistinctDestinations) => SameInEveryOrder

NoSharedStatefulSource ==
    \A i, j \in 1..Len(translations) :
        (/\ i # j
         /\ translations[i].conversion \in Stateful
         /\ translations[j].conversion \in Stateful)
            => translations[i].rtl_field # translations[j].rtl_field

\* C9 (amended): with pairwise distinct destination fields and no two
\* stateful rules reading the same source field, the record and the registry
\* after a reading are the same for every order of the rules.
C9_OrderIndependentDistinctSources ==
    (readings > 0 /\ DistinctDestinations /\ NoSharedStatefulSource)
        => SameInEveryOrder

C9_Witness ==
    /\ readings > 1 /\ DistinctDestinations /\ NoSharedStatefulSource
    /\ Cardinality(StatefulCalls) >= 2
    /\ \E i \in StatefulCalls : conv_log[i].exc = "" /\ conv_log[i].ret.n > 0
    /\ SameInEveryOrder

\* C10: apply_conversion never raises; for a kind that is not in the table,
\* and for a conversion whose computation throws, it returns its input.
C10_NeverRaises ==
    \A i \in 1..Len(conv_log) :
        LET e == conv_log[i]
        IN  /\ ~e.raised
            /\ (e.conversion_type \notin (Stateless \cup Stateful) \/ e.exc # "")
                   => e.ret = e.value

C10_Witness ==
    /\ \E i \in 1..Len(conv_log) :
           /\ conv_log[i].conversion_type \notin (Stateless \cup Stateful)
           /\ conv_log[i].exc = "KeyError"
           /\ conv_log[i].ret = conv_log[i].value
    /\ \E i \in 1..Len(conv_log) :
           /\ conv_log[i].conversion_type \in Stateful
           /\ conv_log[i].exc = "TypeError"
           /\ conv_log[i].ret = conv_log[i].value

\* C20: a reading whose conversions fail leaves the registry as it was: if
\* every stateful conversion of the reading raised (and was caught), no
\* tracker was created and no observation was added.
C20_FailedConversionLeavesRegistry ==
    (/\ readings > 0
     /\ \E i \in 1..Len(conv_log) : conv_log[i].exc # ""
     /\ \A i \in StatefulCalls : conv_log[i].exc # "")
        => trackers = before.trackers


(* ----------------------- properties of main ---------------------------- *)
Happened(e) == \E i \in 1..Len(events) : events[i] = e
Saves == {"save_handler", "save_finally"}

\* C11: load_delta_trackers at startup never raises, and leaves an empty
\* registry when the file does not exist and when it is corrupt or
\* unreadable.
C11_LoadFailsOpen ==
    /\ ~Happened("load_raised")
    /\ (pc = "config" /\ disk_at_load.kind # "pickle") => trackers = <<>>

C11_Witness ==
    /\ pc = "config" /\ Happened("load")
    /\ disk_at_load = Corrupt
    /\ trackers = <<>>

\* C12: when a run has ended and its saves succeeded, loading the file
\* again gives the registry the run ended with: the same field names, each
\* tracker with the same window and the same entries.
C12_SaveLoadRoundTrip ==
    (pc = "exited" /\ ~save_failed /\ \E e \in Saves : Happened(e))
        => load_delta_trackers(disk, <<>>) = [trackers |-> trackers, raised |-> FALSE]

C12_Witness ==
    /\ pc = "exited" /\ ~save_failed /\ Happened("save_finally")
    /\ DOMAIN trackers = {"rain_mm"}
    /\ trackers["rain_mm"].period_in_minutes = DayMinutes
    /\ Len(trackers["rain_mm"].values) >= 2
    /\ load_delta_trackers(disk, <<>>).trackers = trackers

\* C13: once the read loop was entered, a termination goes: the registry is
\* saved, then the decoder is asked to terminate, then the process exits;
\* so a terminate request always comes after a save, and an exit always
\* after a terminate request.
C13_SaveTerminateExit ==
    /\ \A i \in 1..Len(events) :
           events[i] = "terminate" => \E j \in 1..(i - 1) : events[j] \in Saves
    /\ (pc = "exited" /\ decoder # "none") => Happened("terminate")

\* C14: after a termination signal the process eventually exits, even if
\* the decoder never exits.
C14_ExitsAfterSignal == (signals > 0) ~> (pc = "exited")

\* C15: when the configuration cannot be loaded or the station id or key is
\* missing, the process exits with a non-zero status, and the decoder was
\* never started.
C15_ConfigErrorExitsNonZero ==
    Happened("config_error") =>
        /\ pc = "exited" /\ exit_status # "0"
        /\ decoder = "none" /\ lines = 0

\* the destination a rule writes for a conversion call of the log
Destination(e) ==
    (CHOOSE tr \in Rules : tr.rtl_field = e.field_name
                           /\ tr.conversion = e.conversion_type).field

\* C16: a malformed line, a failed conversion and a failed upload leave the
\* loop running: the loop is left only when the decoder has closed its
\* output or a signal arrives, and every reading translated so far was
\* handed to the uploader, a failed conversion's field with its raw value.
C16_Step ==
    /\ (pc \in {"read", "upload"} /\ pc' \notin {"read", "upload"})
           => (decoder = "exited" \/ signals' > signals)
    /\ pc' = "read" =>
           /\ uploads'.n = readings'
           /\ readings' > 0 =>
                  /\ uploads'.record = DEFAULT_WU_DATA'
                  /\ \A i \in 1..Len(conv_log') :
                         conv_log'[i].exc # "" =>
                             uploads'.record[Destination(conv_log'[i])] = conv_log'[i].value
C16_LoopSurvivesErrors == [][C16_Step]_vars

C16_Witness ==
    /\ pc = "read" /\ lines = 3
    /\ errors = {"malformed", "conversion", "upload"}
    /\ uploads.n = 2 /\ uploads.outcome = "success"
    /\ \A i \in 1..Len(conv_log) : conv_log[i].exc = ""

\* C18: when a signal was handled, the registry is saved once: no save of
\* the finally block follows the save of signal_handler.
C18_NoSecondSave ==
    \A i, j \in 1..Len(events) :
        (i < j /\ events[i] = "save_handler") => events[j] # "save_finally"

NewestStamp(values) ==
    CHOOSE t \in {values[i][1] : i \in 1..Len(values)} :
        \A i \in 1..Len(values) : values[i][1] <= t

\* C19: if the file held a non-empty registry at startup, then (no save
\* having failed) the file still holds every tracker it held, with its
\* window and with every entry that window eviction has not removed.
C19_PersistedStateSurvives ==
    (disk_at_start.kind = "pickle" /\ disk_at_start.items # {} /\ ~save_failed)
        => /\ disk.kind = "pickle"
           /\ LET old == pickle_load(disk_at_start)
                  new == pickle_load(disk)
              IN  \A f \in DOMAIN old :
                      /\ f \in DOMAIN new
                      /\ new[f].period_in_minutes = old[f].period_in_minutes
                      /\ \A i \in 1..Len(old[f].values) :
                             \/ \E k \in 1..Len(new[f].values) :
                                    new[f].values[k] = old[f].values[i]
                             \/ old[f].values[i][1] <
                                    NewestStamp(new[f].values) - new[f].period_in_minutes

====
